---------------------------- MODULE Spec2Model ----------------------------
(***************************************************************************)
(* Data cache simulator (A9.c): a set-associative cache with write-through *)
(* and no-write-allocate policies and LRU replacement, driven by a trace   *)
(* of accesses read from stdin under a geometry read from trace.config.    *)
(*                                                                         *)
(* State: main's locals (config, cache, stats, the line buffer and the     *)
(* three values sscanf extracts from it), the two output streams and       *)
(* main's position.  One action per step of main; the functions main       *)
(* calls are operators computed the way the C code computes them.          *)
(***************************************************************************)
EXTENDS Integers, Sequences, FiniteSets, TLC

VARIABLES
    pc,         \* position in main: "validate", "init", "loop", "done", "exit1"
    config,     \* CacheConfig config
    cache,      \* CacheLine **cache: set index -> way -> line (<<>> before init_cache)
    stats,      \* CacheStats stats
    line,       \* the trace line last read by fgets, as sscanf parses it
    pos,        \* number of lines consumed from stdin
    out,        \* stdout: the per-access records printed by access_cache
    warnings,   \* stderr: number of "Warning: ..." lines
    summary     \* stdout: the summary block printed at end of input (<<>> before)

vars == <<pc, config, cache, stats, line, pos, out, warnings, summary>>

----------------------------------------------------------------------------
(* Program constants *)

MAX_CACHE_SETS == 8192
MAX_ASSOCIATIVITY == 8
MAX_LINE_SIZE == 64

(* Bounds of the model *)

\* longest trace (lines of stdin) explored by Spec
MaxLines == 3
\* longest trace explored by SpecLRU
MaxLinesLRU == 5
\* longest trace explored by SpecGeo
MaxLinesGeo == 1

----------------------------------------------------------------------------
(* C integer arithmetic *)

\* Every value the model computes stays far below 2^31: no addition or shift
\* below can wrap, and the one subtraction on an unsigned value (update_lru)
\* is guarded by lru_counter > accessed_counter >= 0.

\* a >> k on a non-negative value
Shr(a, k) == a \div (2 ^ k)

\* a << k on a non-negative int without overflow
Shl(a, k) == a * (2 ^ k)

\* bitwise a & b on non-negative values
RECURSIVE BitAnd(_, _)
BitAnd(a, b) ==
    IF a = 0 \/ b = 0 THEN 0
    ELSE (a % 2) * (b % 2) + 2 * BitAnd(a \div 2, b \div 2)

Min(S) == CHOOSE x \in S : \A y \in S : x <= y

----------------------------------------------------------------------------
(* log2_int: number of right shifts that reduce n to 1 *)

RECURSIVE log2_int(_)
log2_int(n) == IF n > 1 THEN 1 + log2_int(Shr(n, 1)) ELSE 0

(* validate_config that asks for a power of two associativity as well *)
validate_config_pow2_ways(cfg) ==
    IF cfg.num_sets <= 0 \/ cfg.num_sets > MAX_CACHE_SETS THEN 0
    ELSE IF cfg.associativity <= 0 \/ cfg.associativity > MAX_ASSOCIATIVITY THEN 0
    ELSE IF cfg.line_size < 8 \/ cfg.line_size > MAX_LINE_SIZE THEN 0
    ELSE IF BitAnd(cfg.num_sets, cfg.num_sets - 1) # 0 THEN 0
    ELSE IF BitAnd(cfg.associativity, cfg.associativity - 1) # 0 THEN 0
    ELSE IF BitAnd(cfg.line_size, cfg.line_size - 1) # 0 THEN 0
    ELSE 1

(* validate_config: 1 when the geometry is accepted, 0 otherwise.  It only *)
(* reads *config and writes to stderr.                                     *)
validate_config(cfg) ==
    IF cfg.num_sets <= 0 \/ cfg.num_sets > MAX_CACHE_SETS THEN 0
    ELSE IF cfg.associativity <= 0 \/ cfg.associativity > MAX_ASSOCIATIVITY THEN 0
    ELSE IF cfg.line_size < 8 \/ cfg.line_size > MAX_LINE_SIZE THEN 0
    ELSE IF BitAnd(cfg.num_sets, cfg.num_sets - 1) # 0 THEN 0
    ELSE IF BitAnd(cfg.line_size, cfg.line_size - 1) # 0 THEN 0
    ELSE 1

(* init_cache: the bit-field widths and the freshly allocated lines *)
init_config(cfg) ==
    [cfg EXCEPT !.offset_bits = log2_int(cfg.line_size),
                !.index_bits  = log2_int(cfg.num_sets)]

EmptyLine == [valid |-> 0, tag |-> 0, lru_counter |-> 0]

init_lines(cfg) ==
    [i \in 0 .. cfg.num_sets - 1 |-> [j \in 0 .. cfg.associativity - 1 |-> EmptyLine]]

----------------------------------------------------------------------------
(* update_lru that moves every other valid line down, not only the lines   *)
(* that were more recent than the accessed one.                            *)
update_lru_all_others(set, associativity, accessed_way) ==
    LET lowered == [i \in 0 .. associativity - 1 |->
                      IF set[i].valid # 0 /\ i # accessed_way /\ set[i].lru_counter > 0
                      THEN [set[i] EXCEPT !.lru_counter = @ - 1]
                      ELSE set[i]]
    IN  [lowered EXCEPT ![accessed_way].lru_counter = associativity - 1]

(* update_lru that promotes the accessed line to associativity, one above  *)
(* the highest rank.                                                       *)
update_lru_one_above(set, associativity, accessed_way) ==
    LET accessed_counter == set[accessed_way].lru_counter
        lowered == [i \in 0 .. associativity - 1 |->
                      IF set[i].valid # 0 /\ set[i].lru_counter > accessed_counter
                      THEN [set[i] EXCEPT !.lru_counter = @ - 1]
                      ELSE set[i]]
    IN  [lowered EXCEPT ![accessed_way].lru_counter = associativity]

(* update_lru: lines more recent than the accessed one move down by one,   *)
(* the accessed line becomes the most recent.                              *)
update_lru(set, associativity, accessed_way) ==
    LET accessed_counter == set[accessed_way].lru_counter
        lowered == [i \in 0 .. associativity - 1 |->
                      IF set[i].valid # 0 /\ set[i].lru_counter > accessed_counter
                      THEN [set[i] EXCEPT !.lru_counter = @ - 1]
                      ELSE set[i]]
    IN  [lowered EXCEPT ![accessed_way].lru_counter = associativity - 1]

(* find_lru_victim, second loop: scan ways i..associativity-1 keeping the  *)
(* first strictly smallest counter.                                        *)
RECURSIVE lru_scan(_, _, _, _, _)
lru_scan(set, associativity, i, lru_way, min_counter) ==
    IF i >= associativity THEN lru_way
    ELSE IF set[i].lru_counter < min_counter
         THEN lru_scan(set, associativity, i + 1, i, set[i].lru_counter)
         ELSE lru_scan(set, associativity, i + 1, lru_way, min_counter)

(* find_lru_victim with the comparison of the second loop reversed: the    *)
(* most recently used line is chosen.                                      *)
RECURSIVE mru_scan(_, _, _, _, _)
mru_scan(set, associativity, i, lru_way, min_counter) ==
    IF i >= associativity THEN lru_way
    ELSE IF set[i].lru_counter > min_counter
         THEN mru_scan(set, associativity, i + 1, i, set[i].lru_counter)
         ELSE mru_scan(set, associativity, i + 1, lru_way, min_counter)

find_mru_victim(set, associativity) ==
    LET invalid == {i \in 0 .. associativity - 1 : set[i].valid = 0}
    IN  IF invalid # {} THEN Min(invalid)
        ELSE mru_scan(set, associativity, 1, 0, set[0].lru_counter)

(* find_lru_victim that takes the last invalid way instead of the first *)
find_lru_victim_last_invalid(set, associativity) ==
    LET invalid == {i \in 0 .. associativity - 1 : set[i].valid = 0}
    IN  IF invalid # {} THEN CHOOSE i \in invalid : \A j \in invalid : j <= i
        ELSE lru_scan(set, associativity, 1, 0, set[0].lru_counter)

(* find_lru_victim: the first invalid way, else the way of least counter *)
find_lru_victim(set, associativity) ==
    LET invalid == {i \in 0 .. associativity - 1 : set[i].valid = 0}
    IN  IF invalid # {} THEN Min(invalid)
        ELSE lru_scan(set, associativity, 1, 0, set[0].lru_counter)

----------------------------------------------------------------------------
(* access_cache *)

\* address decomposition
addr_offset(cfg, address) == BitAnd(address, Shl(1, cfg.offset_bits) - 1)
\* the index taken from the low bits of the address, the shift forgotten
addr_index_unshifted(cfg, address) ==
    BitAnd(address, Shl(1, cfg.index_bits) - 1)

addr_index(cfg, address) ==
    BitAnd(Shr(address, cfg.offset_bits), Shl(1, cfg.index_bits) - 1)
\* the tag shifted by the offset bits alone, the index bits left in it
addr_tag_offset_only(cfg, address) == Shr(address, cfg.offset_bits)

addr_tag(cfg, address) == Shr(address, cfg.offset_bits + cfg.index_bits)

\* the tag search without the test of the valid bit
find_hit_way_any(set, associativity, tag) ==
    LET match == {i \in 0 .. associativity - 1 : set[i].tag = tag}
    IN  IF match = {} THEN -1 ELSE Min(match)

\* the tag search that stops after way 0
find_hit_way_first_only(set, associativity, tag) ==
    IF set[0].valid # 0 /\ set[0].tag = tag THEN 0 ELSE -1

\* the tag search: the first way that is valid and holds the tag, else -1
find_hit_way(set, associativity, tag) ==
    LET match == {i \in 0 .. associativity - 1 : set[i].valid # 0 /\ set[i].tag = tag}
    IN  IF match = {} THEN -1 ELSE Min(match)

IsRead(access_type) == access_type \in {"R", "r"}
IsWrite(access_type) == access_type \in {"W", "w"}

\* one printed record: type, address, tag, index, offset, result, memory references
Printed(access_type, address, tag, index, offset, hit, refs) ==
    [access_type |-> access_type, address |-> address, tag |-> tag,
     index |-> index, offset |-> offset,
     result |-> IF hit = 1 THEN "hit" ELSE "miss", mem_refs |-> refs]

\* read_set that loads the tag on a miss but leaves the valid bit as it was
read_set_keep_valid(set, associativity, tag, hit_way) ==
    IF hit_way # -1 THEN update_lru(set, associativity, hit_way)
    ELSE LET victim_way == find_lru_victim(set, associativity)
             loaded == [set EXCEPT ![victim_way].tag = tag]
         IN  update_lru(loaded, associativity, victim_way)

\* read_set that does not touch the line on a hit
read_set_no_touch_on_hit(set, associativity, tag, hit_way) ==
    IF hit_way # -1 THEN set
    ELSE LET victim_way == find_lru_victim(set, associativity)
             loaded == [set EXCEPT ![victim_way].valid = 1, ![victim_way].tag = tag]
         IN  update_lru(loaded, associativity, victim_way)

\* the set after a read: touched on a hit, victim replaced and touched on a miss
read_set(set, associativity, tag, hit_way) ==
    IF hit_way # -1 THEN update_lru(set, associativity, hit_way)
    ELSE LET victim_way == find_lru_victim(set, associativity)
             loaded == [set EXCEPT ![victim_way].valid = 1, ![victim_way].tag = tag]
         IN  update_lru(loaded, associativity, victim_way)

\* read_stats that counts a memory read on a hit too
read_stats_always_reads(st, hit) ==
    IF hit = 1 THEN [st EXCEPT !.hits = @ + 1, !.mem_reads = @ + 1]
    ELSE [st EXCEPT !.misses = @ + 1, !.mem_reads = @ + 1]

\* read_stats that counts every read as a miss as well
read_stats_miss_twice(st, hit) ==
    IF hit = 1 THEN [st EXCEPT !.hits = @ + 1, !.misses = @ + 1]
    ELSE [st EXCEPT !.misses = @ + 1, !.mem_reads = @ + 1]

\* the counters after a read
read_stats(st, hit) ==
    IF hit = 1 THEN [st EXCEPT !.hits = @ + 1]
    ELSE [st EXCEPT !.misses = @ + 1, !.mem_reads = @ + 1]

\* write_set that allocates on a miss, as a read does
write_set_allocate(set, associativity, tag, hit_way) ==
    read_set(set, associativity, tag, hit_way)

\* write_set that leaves the recency alone on a hit as well
write_set_no_touch(set, associativity, tag, hit_way) == set

\* the set after a write: touched on a hit, untouched on a miss
write_set(set, associativity, tag, hit_way) ==
    IF hit_way # -1 THEN update_lru(set, associativity, hit_way) ELSE set

\* write_stats of a write-back cache: memory is written on a miss only
write_stats_on_miss(st, hit) ==
    IF hit = 1 THEN [st EXCEPT !.hits = @ + 1]
    ELSE [st EXCEPT !.mem_writes = @ + 1, !.misses = @ + 1]

\* the counters after a write
write_stats(st, hit) ==
    IF hit = 1 THEN [st EXCEPT !.mem_writes = @ + 1, !.hits = @ + 1]
    ELSE [st EXCEPT !.mem_writes = @ + 1, !.misses = @ + 1]

\* memory references printed for a read and for a write
read_refs(hit) == IF hit = 1 THEN 0 ELSE 1
write_refs(hit) == 1

\* the whole call: the new cache, the new counters and what it prints
access_cache(ch, cfg, access_type, address, st) ==
    LET offset  == addr_offset(cfg, address)
        index   == addr_index(cfg, address)
        tag     == addr_tag(cfg, address)
        hit_way == find_hit_way(ch[index], cfg.associativity, tag)
        hit     == IF hit_way # -1 THEN 1 ELSE 0
    IN  IF IsRead(access_type)
        THEN [cache |-> [ch EXCEPT ![index] =
                            read_set(ch[index], cfg.associativity, tag, hit_way)],
              stats |-> read_stats(st, hit),
              printed |-> <<Printed(access_type, address, tag, index, offset,
                                    hit, read_refs(hit))>>]
        ELSE IF IsWrite(access_type)
        THEN [cache |-> [ch EXCEPT ![index] =
                            write_set(ch[index], cfg.associativity, tag, hit_way)],
              stats |-> write_stats(st, hit),
              printed |-> <<Printed(access_type, address, tag, index, offset,
                                    hit, write_refs(hit))>>]
        ELSE [cache |-> ch, stats |-> st, printed |-> <<>>]

----------------------------------------------------------------------------
(* main *)

\* the geometry as fscanf leaves it: three fields read, two not yet set
RawConfig(n, a, l) ==
    [num_sets |-> n, associativity |-> a, line_size |-> l,
     offset_bits |-> 0, index_bits |-> 0]

\* a trace line on which sscanf converts nconv of "%c:%d:%x"
TraceLine(nconv, t, s, a) ==
    [nconv |-> nconv, access_type |-> t, size |-> s, address |-> a]

NoLine == TraceLine(0, "", 0, 0)

\* the size test of the read loop
valid_size(size) == size = 1 \/ size = 2 \/ size = 4 \/ size = 8

\* the alignment test with the mask size instead of size - 1
aligned_mask_size(address, size) == BitAnd(address, size) = 0

\* the alignment test of the read loop
aligned(address, size) == BitAnd(address, size - 1) = 0

\* state after construction: trace.config has been read
InitWith(configs) ==
    /\ pc = "validate"
    /\ config \in configs
    /\ cache = <<>>
    /\ stats = [hits |-> 0, misses |-> 0, mem_reads |-> 0, mem_writes |-> 0]
    /\ line = NoLine
    /\ pos = 0
    /\ out = <<>>
    /\ warnings = 0
    /\ summary = <<>>

\* if (!validate_config(&config)) return 1;
ValidateConfig ==
    /\ pc = "validate"
    /\ pc' = IF validate_config(config) = 0 THEN "exit1" ELSE "init"
    /\ UNCHANGED <<config, cache, stats, line, pos, out, warnings, summary>>

\* init_cache(&cache, &config); CacheStats stats = {0, 0, 0, 0};
InitCache ==
    /\ pc = "init"
    /\ config' = init_config(config)
    /\ cache' = init_lines(config)
    /\ stats' = [hits |-> 0, misses |-> 0, mem_reads |-> 0, mem_writes |-> 0]
    /\ pc' = "loop"
    /\ UNCHANGED <<line, pos, out, warnings, summary>>

\* one iteration of while (fgets(line, sizeof(line), stdin)) on the line l
ReadLine(l) ==
    /\ pc = "loop"
    /\ line' = l
    /\ pos' = pos + 1
    /\ IF l.nconv # 3
       THEN UNCHANGED <<cache, stats, out, warnings>>
       ELSE IF ~valid_size(l.size)
       THEN warnings' = warnings + 1 /\ UNCHANGED <<cache, stats, out>>
       ELSE IF ~aligned(l.address, l.size)
       THEN warnings' = warnings + 1 /\ UNCHANGED <<cache, stats, out>>
       ELSE LET r == access_cache(cache, config, l.access_type, l.address, stats)
            IN  /\ cache' = r.cache
                /\ stats' = r.stats
                /\ out' = out \o r.printed
                /\ UNCHANGED warnings
    /\ UNCHANGED <<pc, config, summary>>

\* fgets returns NULL: print the summary, free the cache, return 0
EndOfInput ==
    /\ pc = "loop"
    /\ summary' = [total_accesses |-> stats.hits + stats.misses,
                   hits |-> stats.hits, misses |-> stats.misses,
                   mem_reads |-> stats.mem_reads, mem_writes |-> stats.mem_writes,
                   total_refs |-> stats.mem_reads + stats.mem_writes]
    /\ pc' = "done"
    /\ UNCHANGED <<config, cache, stats, line, pos, out, warnings>>

----------------------------------------------------------------------------
(* Inputs and specifications *)

\* trace.config files of Spec: three accepted geometries, six rejected ones
ConfigInputs ==
    {RawConfig(4, 2, 16), RawConfig(1, 1, 8), RawConfig(2, 3, 8),
     RawConfig(0, 2, 16), RawConfig(4, 0, 16), RawConfig(4, 9, 16),
     RawConfig(4, 2, 4), RawConfig(3, 2, 16), RawConfig(4, 2, 24)}

\* trace lines of Spec: reads and writes over a few lines of the cache,
\* lower-case and unknown access types, a byte access at an odd address,
\* invalid sizes, misaligned addresses and lines sscanf cannot convert
TraceAddresses == {0, 8, 16, 32, 64, 128}

TraceLines ==
    {TraceLine(3, t, 4, a) : t \in {"R", "W"}, a \in TraceAddresses}
    \cup {TraceLine(3, "r", 4, 64), TraceLine(3, "w", 4, 0),
          TraceLine(3, "X", 4, 0), TraceLine(3, "R", 1, 65),
          TraceLine(3, "R", 3, 0), TraceLine(3, "W", 0, 16),
          TraceLine(3, "R", 4, 66), TraceLine(3, "W", 8, 68),
          TraceLine(0, "", 0, 0), TraceLine(2, "W", 4, 0)}

Init == InitWith(ConfigInputs)

Next ==
    \/ ValidateConfig
    \/ InitCache
    \/ pos < MaxLines /\ \E l \in TraceLines : ReadLine(l)
    \/ EndOfInput

Spec == Init /\ [][Next]_vars

\* SpecLRU: one set of 1..3 ways with 8-byte lines, and reads and writes of
\* one tag more than the set has ways
LRUConfigs == {RawConfig(1, a, 8) : a \in 1 .. 3}

LRULines(cfg) ==
    {TraceLine(3, t, 4, 8 * g) : t \in {"R", "W"}, g \in 0 .. cfg.associativity}

InitLRU == InitWith(LRUConfigs)

NextLRU ==
    \/ ValidateConfig
    \/ InitCache
    \/ pos < MaxLinesLRU /\ \E l \in LRULines(config) : ReadLine(l)
    \/ EndOfInput

SpecLRU == InitLRU /\ [][NextLRU]_vars

\* SpecConfig: validation alone, over geometries around every limit
NumSetsInputs ==
    (-1 .. 33) \cup {64, 100, 1024, 4095, 4096, 4097, 6144, 8191, 8192, 8193, 16384}

AssociativityInputs == -1 .. 10

LineSizeInputs == (0 .. 66) \cup {128}

WideConfigs ==
    {RawConfig(n, a, l) : n \in NumSetsInputs, a \in AssociativityInputs,
                          l \in LineSizeInputs}

InitConfig == InitWith(WideConfigs)

NextConfig == ValidateConfig

SpecConfig == InitConfig /\ [][NextConfig]_vars

\* SpecGeo: every accepted set count and line size (direct mapped, and three
\* geometries of more ways), and accesses of every size at the ends of lines
\* and of the address range
GeoConfigs ==
    {RawConfig(2 ^ k, 1, 2 ^ j) : k \in 0 .. 13, j \in 3 .. 6}
    \cup {RawConfig(8192, 8, 64), RawConfig(64, 3, 32), RawConfig(1, 8, 8)}

GeoLines ==
    {TraceLine(3, "R", 1, 0), TraceLine(3, "R", 1, 63), TraceLine(3, "R", 2, 62),
     TraceLine(3, "R", 4, 60), TraceLine(3, "W", 8, 56), TraceLine(3, "R", 4, 4660),
     TraceLine(3, "R", 8, 524280), TraceLine(3, "W", 4, 305419896),
     TraceLine(3, "R", 8, 2147483640), TraceLine(3, "R", 1, 2147483647),
     TraceLine(3, "R", 8, 7), TraceLine(3, "R", 4, 62), TraceLine(3, "W", 2, 63)}

InitGeo == InitWith(GeoConfigs)

NextGeo ==
    \/ ValidateConfig
    \/ InitCache
    \/ pos < MaxLinesGeo /\ \E l \in GeoLines : ReadLine(l)
    \/ EndOfInput

SpecGeo == InitGeo /\ [][NextGeo]_vars

----------------------------------------------------------------------------
(* Vocabulary of the properties *)

Ways == 0 .. config.associativity - 1

LastOut == out[Len(out)]

\* the step printed one more record, i.e. an access went through access_cache
Processed == Len(out') = Len(out) + 1

NewOut == out'[Len(out')]

Geometry(n, a, l) ==
    /\ pc \in {"loop", "done"}
    /\ config.num_sets = n /\ config.associativity = a /\ config.line_size = l

\* the accesses printed so far, as <<type, address>> pairs
Accesses == [i \in 1 .. Len(out) |-> <<out[i].access_type, out[i].address>>]

\* a record touches its line when it is a read (hit or fill) or a write hit
Touches(r) == IsRead(r.access_type) \/ r.result = "hit"

\* position in stdout of the most recent touch of tag tg in set s (0: none)
LastTouch(s, tg) ==
    LET at == {i \in 1 .. Len(out) :
                 out[i].index = s /\ out[i].tag = tg /\ Touches(out[i])}
    IN  IF at = {} THEN 0 ELSE CHOOSE i \in at : \A j \in at : j <= i

SetFull(s) == \A w \in Ways : cache[s][w].valid = 1

\* the read misses printed for set s: each of them loaded a line
ReadMisses(s) ==
    {i \in 1 .. Len(out) :
       out[i].index = s /\ IsRead(out[i].access_type) /\ out[i].result = "miss"}

----------------------------------------------------------------------------
\* C1: true LRU eviction.  Whenever a read misses in a set all of whose
\* lines are valid, exactly one line of that set is overwritten with the new
\* tag, and it is the line whose most recent touch (fill, read hit or write
\* hit) is earlier than the most recent touch of every other line of the set.
C1_TrueLRU ==
    [][ (pc = "loop" /\ Processed /\ IsRead(NewOut.access_type)
           /\ NewOut.result = "miss" /\ SetFull(NewOut.index))
        => LET s == NewOut.index
           IN  \E v \in Ways :
                 /\ \A w \in Ways \ {v} :
                       LastTouch(s, cache[s][v].tag) < LastTouch(s, cache[s][w].tag)
                 /\ cache'[s][v].valid = 1 /\ cache'[s][v].tag = NewOut.tag
                 /\ cache[s][v].tag # NewOut.tag
                 /\ \A w \in Ways \ {v} :
                       /\ cache'[s][w].valid = cache[s][w].valid
                       /\ cache'[s][w].tag = cache[s][w].tag ]_vars

\* C1 witness: a read miss has just evicted from a full set of at least two
\* ways a line other than way 0, after an earlier hit had reordered the set.
C1_Witness ==
    /\ pc = "loop" /\ Len(out) > config.associativity /\ config.associativity >= 2
    /\ IsRead(LastOut.access_type) /\ LastOut.result = "miss"
    /\ Cardinality(ReadMisses(LastOut.index)) > config.associativity
    /\ \E i \in 1 .. Len(out) - 1 : out[i].result = "hit"
    /\ \E w \in Ways \ {0} : cache[LastOut.index][w].tag = LastOut.tag

----------------------------------------------------------------------------
\* C2: no-write-allocate.  A write that misses leaves every line of the
\* cache (valid flag, tag and recency of every way) as it was, and changes
\* only the misses and mem_writes counters, each by one.
C2_NoWriteAllocate ==
    [][ (pc = "loop" /\ Processed /\ IsWrite(NewOut.access_type)
           /\ NewOut.result = "miss")
        => /\ cache' = cache
           /\ stats' = [stats EXCEPT !.misses = @ + 1, !.mem_writes = @ + 1] ]_vars

\* C2 witness: a write has just missed in a set all of whose lines are valid.
C2_Witness ==
    /\ pc = "loop" /\ Len(out) >= 2
    /\ IsWrite(LastOut.access_type) /\ LastOut.result = "miss"
    /\ SetFull(LastOut.index)

----------------------------------------------------------------------------
\* C3: the second of two consecutive identical reads is never a miss.
C3_ReadTwice ==
    \A i \in 1 .. Len(out) - 1 :
        (IsRead(out[i].access_type) /\ IsRead(out[i + 1].access_type)
           /\ out[i].address = out[i + 1].address)
        => out[i + 1].result = "hit"

\* C3 witness: a read missed in a full set (evicting a line) and the same
\* read, repeated at once, hit; another pair of identical reads hit twice.
C3_Witness ==
    /\ \E i \in config.associativity + 1 .. Len(out) - 1 :
          /\ IsRead(out[i].access_type) /\ IsRead(out[i + 1].access_type)
          /\ out[i].address = out[i + 1].address
          /\ out[i].result = "miss" /\ out[i + 1].result = "hit"
    /\ \E i \in 1 .. Len(out) - 1 :
          /\ IsRead(out[i].access_type) /\ IsRead(out[i + 1].access_type)
          /\ out[i].address = out[i + 1].address
          /\ out[i].result = "hit" /\ out[i + 1].result = "hit"

----------------------------------------------------------------------------
\* the cache line (memory block number) an address falls in
BlockOf(address) == address \div config.line_size

----------------------------------------------------------------------------
\* the trace so far printed exactly these accesses under geometry (4, 2, 16)
Scenario(accesses) == Geometry(4, 2, 16) /\ Accesses = accesses

ValidTags(s) == {cache[s][w].tag : w \in {v \in Ways : cache[s][v].valid = 1}}

Results == [i \in 1 .. Len(out) |-> out[i].result]

Indexes == [i \in 1 .. Len(out) |-> out[i].index]

\* C5 as claimed: reads of 0x00, 0x10, 0x20 all go to set 0, miss three
\* times, the third evicts tag 0 and set 0 ends with two resident lines.
C5_AsClaimed ==
    Scenario(<<<<"R", 0>>, <<"R", 16>>, <<"R", 32>>>>)
    => /\ Indexes = <<0, 0, 0>>
       /\ Results = <<"miss", "miss", "miss">>
       /\ SetFull(0)
       /\ \A w \in Ways : BlockOf(0) # cache[0][w].tag * config.num_sets + 0

\* C5 as amended: reads of 0x00, 0x10, 0x20 go to sets 0, 1 and 2 with tag 0
\* and miss three times without evicting anything: each fills way 0 of its
\* own set and set 0 ends holding tag 0 alone.  The eviction the scenario
\* describes is that of reads of 0x00, 0x40, 0x80: all three go to set 0 with
\* tags 0, 1, 2, miss three times, the third evicts tag 0 from way 0, and set
\* 0 ends holding tags 1 and 2.
C5_Scenario ==
    /\ Scenario(<<<<"R", 0>>, <<"R", 16>>, <<"R", 32>>>>)
       => /\ Indexes = <<0, 1, 2>>
          /\ \A i \in 1 .. 3 : out[i].tag = 0
          /\ Results = <<"miss", "miss", "miss">>
          /\ \A s \in 0 .. 2 :
                /\ cache[s][0] = [valid |-> 1, tag |-> 0, lru_counter |-> 1]
                /\ cache[s][1] = EmptyLine
          /\ cache[3] = [w \in 0 .. 1 |-> EmptyLine]
    /\ Scenario(<<<<"R", 0>>, <<"R", 64>>, <<"R", 128>>>>)
       => /\ Indexes = <<0, 0, 0>>
          /\ [i \in 1 .. 3 |-> out[i].tag] = <<0, 1, 2>>
          /\ Results = <<"miss", "miss", "miss">>
          /\ cache[0][0] = [valid |-> 1, tag |-> 2, lru_counter |-> 1]
          /\ cache[0][1] = [valid |-> 1, tag |-> 1, lru_counter |-> 0]
          /\ ValidTags(0) = {1, 2}

\* C5 witness: the three reads of the scenario have been processed.
C5_Witness ==
    Scenario(<<<<"R", 0>>, <<"R", 16>>, <<"R", 32>>>>) /\ pos = 3 /\ pc = "loop"

----------------------------------------------------------------------------
\* C6: write-through counting.  Every write adds exactly one to mem_writes
\* and leaves mem_reads alone; a write hit adds one to hits only, a write
\* miss one to misses only.  Under geometry (4, 2, 16) the trace read 0x00,
\* write 0x00, write 0x40 prints miss, hit, miss and ends with hits = 1,
\* misses = 2, mem_writes = 2, mem_reads = 1.
C6_WriteThrough ==
    /\ [][ (pc = "loop" /\ Processed /\ IsWrite(NewOut.access_type))
           => /\ stats'.mem_writes = stats.mem_writes + 1
              /\ stats'.mem_reads = stats.mem_reads
              /\ NewOut.result = "hit"
                 => stats'.hits = stats.hits + 1 /\ stats'.misses = stats.misses
              /\ NewOut.result = "miss"
                 => stats'.misses = stats.misses + 1 /\ stats'.hits = stats.hits ]_vars
    /\ [](Scenario(<<<<"R", 0>>, <<"W", 0>>, <<"W", 64>>>>)
          => /\ Results = <<"miss", "hit", "miss">>
             /\ stats = [hits |-> 1, misses |-> 2, mem_reads |-> 1, mem_writes |-> 2])

\* C6 witness: the three accesses of the scenario have been processed.
C6_Witness ==
    Scenario(<<<<"R", 0>>, <<"W", 0>>, <<"W", 64>>>>) /\ pos = 3 /\ pc = "loop"

----------------------------------------------------------------------------
RECURSIVE SumRefs(_)
SumRefs(n) == IF n = 0 THEN 0 ELSE out[n].mem_refs + SumRefs(n - 1)

CountResult(res) == Cardinality({i \in 1 .. Len(out) : out[i].result = res})

\* C7: statistics round trip.  hits is the number of records printed "hit",
\* misses the number printed "miss", and hits + misses the number of
\* records; the summary prints that sum as the total.
C7_StatsRoundTrip ==
    /\ pc \in {"loop", "done"}
       => /\ stats.hits = CountResult("hit")
          /\ stats.misses = CountResult("miss")
          /\ stats.hits + stats.misses = Len(out)
    /\ pc = "done"
       => /\ summary.total_accesses = Len(out)
          /\ summary.hits = CountResult("hit")
          /\ summary.misses = CountResult("miss")

\* C7 witness: the summary has been printed after three lines: one that
\* printed a miss, one that printed a hit and one that printed nothing.
C7_Witness ==
    /\ pc = "done" /\ Len(out) = 2 /\ pos = 3
    /\ CountResult("hit") = 1 /\ CountResult("miss") = 1

----------------------------------------------------------------------------
\* C8: memory-reference accounting.  A record's count is 0 exactly when it
\* is a read hit and 1 otherwise; mem_reads is the number of read misses and
\* mem_reads + mem_writes the sum of the counts of all records.
C8_MemRefs ==
    pc \in {"loop", "done"}
    => /\ \A i \in 1 .. Len(out) :
             /\ out[i].mem_refs \in {0, 1}
             /\ out[i].mem_refs = 0
                <=> (IsRead(out[i].access_type) /\ out[i].result = "hit")
       /\ stats.mem_reads =
             Cardinality({i \in 1 .. Len(out) :
                            IsRead(out[i].access_type) /\ out[i].result = "miss"})
       /\ stats.mem_reads + stats.mem_writes = SumRefs(Len(out))

\* C8 witness: a read miss, a read hit and a write hit have been printed.
C8_Witness ==
    /\ \E i \in 1 .. Len(out) : IsRead(out[i].access_type) /\ out[i].result = "hit"
    /\ \E i \in 1 .. Len(out) : IsWrite(out[i].access_type) /\ out[i].result = "hit"
    /\ \E i \in 1 .. Len(out) : IsRead(out[i].access_type) /\ out[i].result = "miss"

----------------------------------------------------------------------------
IsPowerOfTwo(n) == \E k \in 0 .. 14 : n = 2 ^ k

Acceptable(cfg) ==
    /\ cfg.num_sets \in 1 .. 8192 /\ IsPowerOfTwo(cfg.num_sets)
    /\ cfg.associativity \in 1 .. 8
    /\ cfg.line_size \in 8 .. 64 /\ IsPowerOfTwo(cfg.line_size)

\* C9: validation accepts a geometry exactly when num_sets is a power of two
\* in 1..8192, associativity is in 1..8 and line_size is a power of two in
\* 8..64, and it changes neither the geometry nor the cache.
C9_Validation ==
    [][ pc = "validate"
        => /\ pc' = "init" <=> Acceptable(config)
           /\ pc' = "exit1" <=> ~Acceptable(config)
           /\ config' = config /\ cache' = cache /\ stats' = stats ]_vars

\* C9 witness: a geometry of three ways, not a power of two, was accepted at
\* the largest set count and line size.
C9_Witness ==
    /\ pc = "init" /\ config.associativity = 3
    /\ config.num_sets = 8192 /\ config.line_size = 64

----------------------------------------------------------------------------
\* the line is one the read loop skips with a warning
Skipped(l) ==
    /\ l.nconv = 3
    /\ \/ l.size \notin {1, 2, 4, 8}
       \/ l.address % l.size # 0

\* C10: a line of invalid size or misaligned address changes no cache line,
\* no counter and no output record, and leaves main in its read loop: the
\* state the following lines are processed from is the state before it.
C10_SkippedLines ==
    [][ (pc = "loop" /\ pos' = pos + 1 /\ Skipped(line'))
        => /\ cache' = cache /\ stats' = stats /\ out' = out
           /\ config' = config /\ pc' = pc /\ summary' = summary
           /\ warnings' = warnings + 1 ]_vars

\* C10 witness: a misaligned or wrongly sized line was skipped, and an access
\* read after it was processed and hit the line an earlier access loaded.
C10_Witness ==
    /\ pc = "loop" /\ pos = 3 /\ warnings = 1 /\ Len(out) = 2
    /\ line.nconv = 3 /\ ~Skipped(line)
    /\ LastOut.address = line.address /\ LastOut.result = "hit"

----------------------------------------------------------------------------
Sets == DOMAIN cache

ValidWays(s) == {w \in Ways : cache[s][w].valid = 1}

\* the read misses printed for set s number more than the set has ways, so
\* at least one line of the set has been replaced
Evicted(s) == Cardinality(ReadMisses(s)) > config.associativity

\* C11: no set ever holds two valid lines with the same tag, so the tag
\* search matches at most one way.
C11_UniqueTags ==
    pc \in {"loop", "done"}
    => \A s \in Sets : \A v, w \in ValidWays(s) :
          cache[s][v].tag = cache[s][w].tag => v = w

\* C11 witness: a set of three ways is full, a line of it has been replaced,
\* and a tag that was evicted earlier has been loaded again.
C11_Witness ==
    /\ pc = "loop" /\ config.associativity = 3 /\ SetFull(0) /\ Evicted(0)
    /\ \E i, j \in ReadMisses(0) : i < j /\ out[i].tag = out[j].tag

----------------------------------------------------------------------------
----------------------------------------------------------------------------
\* C13: after any read and after any write hit the accessed tag is resident
\* in its set and its line holds recency associativity-1, which no other
\* valid line of the set holds.
C13_AccessedIsMostRecent ==
    (pc \in {"loop", "done"} /\ Len(out) > 0 /\ Touches(LastOut))
    => LET s == LastOut.index
       IN  \E w \in ValidWays(s) :
              /\ cache[s][w].tag = LastOut.tag
              /\ cache[s][w].lru_counter = config.associativity - 1
              /\ \A v \in ValidWays(s) \ {w} :
                    cache[s][v].lru_counter < config.associativity - 1

\* C13 witness: a read has just hit a line of a full set of three ways that
\* was not the most recent one before.
C13_Witness ==
    /\ pc = "loop" /\ config.associativity = 3 /\ SetFull(0) /\ Len(out) >= 4
    /\ IsRead(LastOut.access_type) /\ LastOut.result = "hit"
    /\ out[Len(out) - 1].tag # LastOut.tag /\ Touches(out[Len(out) - 1])

----------------------------------------------------------------------------
\* the set and the tag of an address, by division instead of shifts and masks
IndexOf(address) == (address \div config.line_size) % config.num_sets

TagOf(address) == address \div (config.line_size * config.num_sets)

\* C14: processing one line of the trace changes lines of one set only, the
\* set selected by the index of the address: every line of every other set
\* keeps its valid flag, tag and recency; the printed index is that set and
\* hit or miss is decided by the lines of that set alone.
C14_OneSetPerAccess ==
    [][ (pc = "loop" /\ pos' = pos + 1)
        => /\ \A s \in Sets : s # IndexOf(line'.address) => cache'[s] = cache[s]
           /\ Processed
              => /\ NewOut.index = IndexOf(NewOut.address)
                 /\ NewOut.result = "hit"
                    <=> \E w \in ValidWays(NewOut.index) :
                           cache[NewOut.index][w].tag = TagOf(NewOut.address) ]_vars

\* C14 witness: under geometry (4, 2, 16) sets 0 and 1 hold a valid line
\* each and the last access went to set 2.
C14_Witness ==
    /\ Geometry(4, 2, 16) /\ pc = "loop" /\ Len(out) = 3
    /\ cache[0][0].valid = 1 /\ cache[1][0].valid = 1
    /\ LastOut.index = 2 /\ cache[2][0].valid = 1

----------------------------------------------------------------------------
\* C15: line lifecycle.  init_cache leaves every line invalid with recency
\* 0; afterwards a valid line stays valid, and the valid flag or the tag of
\* a line changes only in a step that prints a read miss for the line's set.
C15_LineLifecycle ==
    /\ [][ pc = "init"
           => /\ DOMAIN cache' = 0 .. config.num_sets - 1
              /\ \A s \in DOMAIN cache' :
                    /\ DOMAIN cache'[s] = 0 .. config.associativity - 1
                    /\ \A w \in DOMAIN cache'[s] :
                          cache'[s][w].valid = 0 /\ cache'[s][w].lru_counter = 0 ]_vars
    /\ [][ pc = "loop"
           => \A s \in Sets : \A w \in Ways :
                 /\ cache[s][w].valid = 1 => cache'[s][w].valid = 1
                 /\ (cache'[s][w].valid # cache[s][w].valid
                       \/ cache'[s][w].tag # cache[s][w].tag)
                    => /\ Processed /\ IsRead(NewOut.access_type)
                       /\ NewOut.result = "miss" /\ NewOut.index = s ]_vars

\* C15 witness: every line of a set of two ways became valid, a write then
\* missed, and a later read miss overwrote the tag of a valid line.
C15_Witness ==
    /\ pc = "loop" /\ config.associativity = 2 /\ SetFull(0) /\ Evicted(0)
    /\ IsRead(LastOut.access_type) /\ LastOut.result = "miss"
    /\ \E i \in 1 .. Len(out) - 1 :
          IsWrite(out[i].access_type) /\ out[i].result = "miss"

----------------------------------------------------------------------------
\* bitwise a | b on non-negative values
RECURSIVE BitOr(_, _)
BitOr(a, b) ==
    IF a = 0 THEN b
    ELSE IF b = 0 THEN a
    ELSE (IF a % 2 = 1 \/ b % 2 = 1 THEN 1 ELSE 0) + 2 * BitOr(a \div 2, b \div 2)

\* C16: address decomposition.  For every accepted geometry 2^offset_bits =
\* line_size and 2^index_bits = num_sets, and for every address printed the
\* offset is the address modulo line_size, the index is the line number
\* modulo num_sets and names a set of the cache, the tag is the line number
\* divided by num_sets, and
\* (tag << (offset_bits+index_bits)) | (index << offset_bits) | offset
\* is the address.
C16_Decomposition ==
    pc \in {"loop", "done"}
    => /\ 2 ^ config.offset_bits = config.line_size
       /\ 2 ^ config.index_bits = config.num_sets
       /\ \A i \in 1 .. Len(out) :
             LET r == out[i]
             IN  /\ r.offset = r.address % config.line_size
                 /\ r.offset < config.line_size
                 /\ r.index = IndexOf(r.address)
                 /\ r.index < config.num_sets /\ r.index \in Sets
                 /\ r.tag = TagOf(r.address)
                 /\ BitOr(BitOr(Shl(r.tag, config.offset_bits + config.index_bits),
                                Shl(r.index, config.offset_bits)),
                          r.offset) = r.address

\* C16 witness: the largest address was decomposed under the largest
\* geometry into tag 4095, index 8191 and offset 63.
C16_Witness ==
    /\ pc = "loop" /\ config.num_sets = 8192 /\ config.line_size = 64
    /\ Len(out) = 1 /\ LastOut.address = 2147483647
    /\ LastOut.tag = 4095 /\ LastOut.index = 8191 /\ LastOut.offset = 63

----------------------------------------------------------------------------
\* C20: every access main passes to access_cache lies inside one cache line:
\* its offset plus its size is at most line_size, so its first and its last
\* byte have the same tag and the same index.
C20_WithinOneLine ==
    [][ (pc = "loop" /\ Processed)
        => /\ NewOut.address = line'.address
           /\ NewOut.offset + line'.size <= config.line_size
           /\ IndexOf(line'.address + line'.size - 1) = NewOut.index
           /\ TagOf(line'.address + line'.size - 1) = NewOut.tag ]_vars

\* C20 witness: an 8-byte access that ends at the last byte of its line (of
\* 8 or of 64 bytes) was processed under 8192 sets.
C20_Witness ==
    /\ pc = "loop" /\ Len(out) = 1 /\ line.size = 8
    /\ LastOut.offset + line.size = config.line_size
    /\ config.line_size \in {8, 64} /\ config.num_sets = 8192

----------------------------------------------------------------------------
(* The reference model of C17: per set a list of at most associativity     *)
(* tags, most recent first.                                                *)

Without(list, tg) == SelectSeq(list, LAMBDA x : x # tg)

Holds(list, tg) == \E k \in 1 .. Len(list) : list[k] = tg

ToFront(list, tg) ==
    LET moved == <<tg>> \o Without(list, tg)
    IN  IF Len(moved) > config.associativity
        THEN SubSeq(moved, 1, config.associativity) ELSE moved

\* the lists after one more event: every read and every write hit moves the
\* tag to the front, a write miss is ignored
RefStep(lists, access_type, address) ==
    LET s == IndexOf(address)
        tg == TagOf(address)
    IN  IF IsRead(access_type) \/ Holds(lists[s], tg)
        THEN [lists EXCEPT ![s] = ToFront(lists[s], tg)]
        ELSE lists

\* the lists after the first n events printed
RECURSIVE RefLists(_)
RefLists(n) ==
    IF n = 0 THEN [s \in 0 .. config.num_sets - 1 |-> <<>>]
    ELSE RefStep(RefLists(n - 1), out[n].access_type, out[n].address)

\* the reference model's outcome of event n
RefResult(n) ==
    IF Holds(RefLists(n - 1)[IndexOf(out[n].address)], TagOf(out[n].address))
    THEN "hit" ELSE "miss"

WayOfTag(s, tg) == CHOOSE w \in ValidWays(s) : cache[s][w].tag = tg

\* C17: the rank-decrement scheme and the ordered recency list agree.  On
\* the same events both report the same hit or miss for every event, every
\* set holds exactly the tags of its list, and a tag earlier in the list
\* (more recent) has the greater recency rank.
C17_ListEquivalence ==
    pc \in {"loop", "done"}
    => /\ \A n \in 1 .. Len(out) : out[n].result = RefResult(n)
       /\ LET lists == RefLists(Len(out))
          IN  \A s \in Sets :
                 /\ {cache[s][w].tag : w \in ValidWays(s)}
                       = {lists[s][k] : k \in 1 .. Len(lists[s])}
                 /\ Cardinality(ValidWays(s)) = Len(lists[s])
                 /\ \A j, k \in 1 .. Len(lists[s]) :
                       j < k => cache[s][WayOfTag(s, lists[s][j])].lru_counter
                                  > cache[s][WayOfTag(s, lists[s][k])].lru_counter

\* C17 witness: in a full set of at least two ways a write hit reordered the
\* lines, a write missed, and a later read miss dropped the last tag of the
\* list.
C17_Witness ==
    /\ pc = "loop" /\ config.associativity >= 2 /\ SetFull(0) /\ Evicted(0)
    /\ IsRead(LastOut.access_type) /\ LastOut.result = "miss"
    /\ \E i \in 1 .. Len(out) - 1 :
          IsWrite(out[i].access_type) /\ out[i].result = "hit"
    /\ \E i \in 1 .. Len(out) - 1 :
          IsWrite(out[i].access_type) /\ out[i].result = "miss"
    /\ cache[0][0].tag # LastOut.tag

----------------------------------------------------------------------------
\* the position of read miss i among the read misses printed for set s
MissRank(s, i) == Cardinality({j \in ReadMisses(s) : j <= i})

\* C18: the valid lines of each set are a prefix of its ways.  While no line
\* of a set has been replaced, the k-th read miss of the set has loaded its
\* tag into way k-1 (the first one into way 0) and exactly that many ways
\* are valid.
C18_ValidPrefix ==
    pc \in {"loop", "done"}
    => \A s \in Sets :
          /\ \A j \in ValidWays(s) : \A i \in 0 .. j - 1 : cache[s][i].valid = 1
          /\ ~Evicted(s)
             => /\ Cardinality(ValidWays(s)) = Cardinality(ReadMisses(s))
                /\ \A i \in ReadMisses(s) :
                      /\ cache[s][MissRank(s, i) - 1].valid = 1
                      /\ cache[s][MissRank(s, i) - 1].tag = out[i].tag

\* C18 witness: after five accesses, hits among them, a set of three ways
\* holds two tags in ways 0 and 1 and way 2 is still invalid.
C18_Witness ==
    /\ pc = "loop" /\ config.associativity = 3 /\ Len(out) = 5
    /\ ValidWays(0) = {0, 1}
    /\ \E i \in 1 .. 5 : IsRead(out[i].access_type) /\ out[i].result = "hit"
    /\ \E i \in 1 .. 5 : IsWrite(out[i].access_type) /\ out[i].result = "miss"

----------------------------------------------------------------------------
\* C19: a set with k valid lines holds in them exactly the recencies
\* associativity-k .. associativity-1, and every invalid line has recency 0.
C19_RecencyRange ==
    pc \in {"loop", "done"}
    => \A s \in Sets :
          LET k == Cardinality(ValidWays(s))
          IN  /\ {cache[s][w].lru_counter : w \in ValidWays(s)}
                    = config.associativity - k .. config.associativity - 1
              /\ \A w \in Ways \ ValidWays(s) : cache[s][w].lru_counter = 0

\* C19 witness: a set of three ways holds two valid lines with recencies 2
\* and 1, way 0 the more recent after a hit, and way 2 invalid with recency 0.
C19_Witness ==
    /\ pc = "loop" /\ config.associativity = 3 /\ ValidWays(0) = {0, 1}
    /\ cache[0][0].lru_counter = 2 /\ cache[0][1].lru_counter = 1
    /\ cache[0][2].lru_counter = 0
    /\ LastOut.result = "hit"

=============================================================================
